---- MODULE Spec2Model ----
(***************************************************************************)
(* The library store of nvc (src/lib.c): the registry of open libraries,   *)
(* the per-library unit cache, and the backing directories on disk.        *)
(*                                                                         *)
(* C strings are sequences of one-character strings, so that toupper and   *)
(* tolower act on them character by character as the code does.  A lib_t   *)
(* is a positive integer (the n-th struct lib ever allocated); 0 is NULL.   *)
(***************************************************************************)
EXTENDS Naturals, Integers, Sequences, FiniteSets, TLC

VARIABLES
    loaded,     \* the list `loaded`, head first: a sequence of lib_t
    work,       \* the pointer `work`
    libs,       \* the heap: live struct lib's, lib_t -> [name, path, units]
    nalloc,     \* number of struct lib's allocated so far
    fs,         \* the disk: directory path -> (file name -> file content)
    env,        \* the value of NVC_LIBPATH, or NullStr when unset
    call,       \* the last library call made, its arguments and its result
    io,         \* the file-system calls the last library call made
    aborted     \* the process has ended in assert(), fatal() or a crash

vars == <<loaded, work, libs, nalloc, fs, env, call, io, aborted>>

(***************************************************************************)
(* Bounds of the model.                                                    *)
(***************************************************************************)
MaxHandles == 3         \* struct lib's allocated in one run of Spec
MaxCacheHandles == 2    \* struct lib's allocated in one run of SpecCache
MaxTmpHandles == 1      \* struct lib's allocated in one run of SpecTmp
MaxPut == 3             \* lib_put calls accepted on one handle
MaxSearchHandles == 2   \* struct lib's allocated in one run of SpecSearch
MaxCapHandles == 1      \* struct lib's allocated in one run of SpecCap
MaxDestroyHandles == 1  \* struct lib's allocated in one run of SpecDestroy
MaxDestroyPut == 2      \* lib_put calls accepted on one handle in SpecDestroy

(***************************************************************************)
(* Program constants.                                                      *)
(***************************************************************************)
MAX_UNITS == 16
MAX_SEARCH_PATHS == 64

NULL == 0
NullStr == <<"(null)">>                 \* a NULL char pointer
EmptyStr == <<>>                        \* ""
Slash == <<"/">>
Dot == <<".">>
MARKER == <<"_", "N", "V", "C", "_", "L", "I", "B">>
PACKAGE_STRING == <<"n", "v", "c">>
DATADIR == <<"/", "d">>
CWD == <<"/", "c">>                     \* the current working directory
ROOT == <<"/">>                         \* the root directory
Junk == <<"?">>                         \* stale bytes left in malloc'ed memory
WorkName == <<"w", "o", "r", "k">>

(***************************************************************************)
(* <ctype.h>, on the letters the model uses.                               *)
(***************************************************************************)
toupper(c) ==
    CASE c = "a" -> "A" [] c = "b" -> "B" [] c = "c" -> "C" [] c = "d" -> "D"
      [] c = "k" -> "K" [] c = "o" -> "O" [] c = "p" -> "P" [] c = "r" -> "R"
      [] c = "w" -> "W" [] OTHER -> c

tolower(c) ==
    CASE c = "A" -> "a" [] c = "B" -> "b" [] c = "C" -> "c" [] c = "D" -> "d"
      [] c = "K" -> "k" [] c = "O" -> "o" [] c = "P" -> "p" [] c = "R" -> "r"
      [] c = "W" -> "w" [] c = "X" -> "x" [] c = "Y" -> "y" [] OTHER -> c

\* ident_new of the upcased copy; an ident_t is the interned string itself
upcase_name(name) == [i \in 1..Len(name) |-> toupper(name[i])]

\* the loop "Convert to lower case" of lib_find_at, over the whole buffer
LowerCase(s) == [i \in 1..Len(s) |-> tolower(s[i])]

\* snprintf(buf, ..., "%s/%s", a, b)
PathJoin(a, b) == a \o Slash \o b

(***************************************************************************)
(* The file system.  Directories are keyed by absolute path.               *)
(***************************************************************************)
\* the absolute path a path string names, as the kernel resolves it
Resolve(p) ==
    IF p = EmptyStr THEN EmptyStr
    ELSE IF p[1] = "/" THEN p
    ELSE IF Len(p) >= 2 /\ p[1] = "." /\ p[2] = "/"
         THEN CWD \o SubSeq(p, 2, Len(p))
    ELSE IF p = Dot THEN CWD
    ELSE PathJoin(CWD, p)

\* access(p, F_OK) == 0 for a directory path
DirExists(f, p) == p # EmptyStr /\ Resolve(p) \in DOMAIN f

\* access(dir/name, F_OK) == 0 for a file in a directory
FileExists(f, dir, name) == DirExists(f, dir) /\ name \in DOMAIN f[Resolve(dir)]

\* the directory in which lib_fopen(lib, name, mode) opens `name`:
\* with path "" the buffer is "/name", a file of the root directory
FopenDir(path) == IF path = EmptyStr THEN ROOT ELSE Resolve(path)

\* a function with one more (or one overwritten) point
Store(f, k, v) == [x \in DOMAIN f \cup {k} |-> IF x = k THEN v ELSE f[x]]

\* a function with one point removed
Drop(f, k) == [x \in DOMAIN f \ {k} |-> f[x]]

EmptyDir == [x \in {} |-> 0]

(***************************************************************************)
(* Trees (tree.h, not part of lib.c): a unit has an identifier and a body. *)
(***************************************************************************)
NoTree == [ident |-> EmptyStr, body |-> 0]
Tree(id, b) == [ident |-> id, body |-> b]
tree_ident(t) == t.ident
istr(ident) == ident
ident_new(str) == str
\* the serialised form of a unit, and its inverse
tree_write(t) == <<t.ident, t.body>>
tree_read(data) == [ident |-> data[1], body |-> data[2]]

(***************************************************************************)
(* The record of the last call: what was called, with what, and what it    *)
(* returned (rlib: a lib_t, rtree: a tree_t, diag: the listing on stderr). *)
(* search is the argument `search` of lib_find, FALSE for the other calls. *)
(***************************************************************************)
Call(op, lib, name, tree, rlib, rtree, diag) ==
    [op |-> op, lib |-> lib, name |-> name, tree |-> tree,
     rlib |-> rlib, rtree |-> rtree, diag |-> diag, search |-> FALSE]

\* one file-system call: the function called, the path string it is given,
\* and whether it succeeded
Sys(fn, path, ok) == <<fn, path, ok>>

(***************************************************************************)
(* lib_init: allocate a struct lib and push it on the front of `loaded`.   *)
(* realpath() fills l->path only when rpath names an existing directory;   *)
(* otherwise l->path keeps what malloc left there (junk).                  *)
(***************************************************************************)
lib_init(L, ld, n, name, rpath, f, junk) ==
    LET l == [name  |-> upcase_name(name),
              path  |-> IF DirExists(f, rpath) THEN Resolve(rpath) ELSE junk,
              units |-> <<>>]
    IN  [libs |-> Store(L, n + 1, l), loaded |-> <<n + 1>> \o ld,
         nalloc |-> n + 1, lib |-> n + 1]

(***************************************************************************)
(* lib_find_at: the directory probed for `name` under `path`, whether it   *)
(* is a library, and the access() calls made.                              *)
(***************************************************************************)
lib_find_at(name, path, f) ==
    LET dir == LowerCase(PathJoin(path, name))
        marker == PathJoin(dir, MARKER)
    IN  IF ~DirExists(f, dir)
        THEN [ok |-> FALSE, dir |-> dir, io |-> {Sys("access", dir, FALSE)}]
        ELSE IF ~FileExists(f, dir, MARKER)
        THEN [ok |-> FALSE, dir |-> dir,
              io |-> {Sys("access", dir, TRUE), Sys("access", marker, FALSE)}]
        ELSE [ok |-> TRUE, dir |-> dir,
              io |-> {Sys("access", dir, TRUE), Sys("access", marker, TRUE)}]

(***************************************************************************)
(* push_path on the array `paths` and the index `idx` of lib_find.  The    *)
(* array is the sequence base (element i of C is base[i + 1]).             *)
(***************************************************************************)
WriteAt(base, i, v) ==
    IF i + 1 <= Len(base) THEN [base EXCEPT ![i + 1] = v] ELSE Append(base, v)

push_path(p, path) ==
    IF p.idx < MAX_SEARCH_PATHS - 1
    THEN [base |-> WriteAt(WriteAt(p.base, p.idx, path), p.idx + 1, NullStr),
          idx |-> p.idx + 1]
    ELSE p

\* the tokens strtok(s, ":") returns, call after call
RECURSIVE strtok(_)
strtok(s) ==
    IF s = EmptyStr THEN <<>>
    ELSE IF s[1] = ":" THEN strtok(Tail(s))
    ELSE LET stops == {i \in 1..Len(s) : s[i] = ":"}
             end == IF stops = {} THEN Len(s) + 1
                    ELSE CHOOSE i \in stops : \A j \in stops : i <= j
         IN  <<SubSeq(s, 1, end - 1)>> \o strtok(SubSeq(s, end, Len(s)))

RECURSIVE PushAll(_, _)
PushAll(p, toks) ==
    IF toks = <<>> THEN p ELSE PushAll(push_path(p, Head(toks)), Tail(toks))

\* the array `paths` as lib_find has built it when it starts probing; the
\* do-while pushes the first strtok result even when it is NULL
SearchPaths(search, e) ==
    LET p1 == push_path([base |-> <<>>, idx |-> 0], Dot)
        toks == strtok(e)
        p2 == IF e # NullStr
              THEN PushAll(p1, IF toks = <<>> THEN <<NullStr>> ELSE toks)
              ELSE p1
    IN  IF search THEN push_path(p2, DATADIR) ELSE p1

\* the entries the loops "for (p = paths; *p != NULL; p++)" visit
Probed(base) ==
    LET nulls == {i \in 1..Len(base) : base[i] = NullStr}
        stop == CHOOSE i \in nulls : \A j \in nulls : i <= j
    IN  SubSeq(base, 1, stop - 1)

(***************************************************************************)
(* lib_find                                                                *)
(***************************************************************************)
\* the first element of `loaded` whose name is name_i, or NULL
FindLoaded(ld, L, name_i) ==
    LET hits == {i \in 1..Len(ld) : L[ld[i]].name = name_i}
    IN  IF hits = {} THEN NULL
        ELSE ld[CHOOSE i \in hits : \A j \in hits : i <= j]

\* the position in paths of the first base that holds the library, or 0
FirstValid(name, paths, f) ==
    LET ok == {i \in 1..Len(paths) : lib_find_at(name, paths[i], f).ok}
    IN  IF ok = {} THEN 0 ELSE CHOOSE i \in ok : \A j \in ok : i <= j

lib_find(name, verbose, search, cap) ==
    LET hit == FindLoaded(loaded, libs, upcase_name(name))
        paths == Probed(SearchPaths(search, env).base)
        k == FirstValid(name, paths, fs)
        last == IF k = 0 THEN Len(paths) ELSE k
        probes == UNION {lib_find_at(name, paths[i], fs).io : i \in 1..last}
    IN  /\ ~aborted
        /\ IF hit # NULL
           THEN /\ call' = [Call("find", NULL, name, NoTree, hit, NoTree, <<>>)
                              EXCEPT !.search = search]
                /\ io' = {}
                /\ UNCHANGED <<loaded, libs, nalloc>>
           ELSE IF k # 0
           THEN LET dir == lib_find_at(name, paths[k], fs).dir
                    r == lib_init(libs, loaded, nalloc, name, dir, fs, Junk)
                IN  /\ nalloc < cap
                    /\ libs' = r.libs
                    /\ loaded' = r.loaded
                    /\ nalloc' = r.nalloc
                    /\ call' = [Call("find", NULL, name, NoTree, r.lib, NoTree,
                                      <<>>) EXCEPT !.search = search]
                    /\ io' = probes \cup {Sys("realpath", dir, TRUE)}
           ELSE /\ call' = [Call("find", NULL, name, NoTree, NULL, NoTree,
                                 IF verbose THEN paths ELSE <<>>)
                              EXCEPT !.search = search]
                /\ io' = probes
                /\ UNCHANGED <<loaded, libs, nalloc>>
        /\ UNCHANGED <<work, fs, env, aborted>>

(***************************************************************************)
(* lib_new; mkdir_ok is whether the operating system lets mkdir succeed.   *)
(* new_refused is the two early returns, new_made the rest of the function.*)
(***************************************************************************)
\* lib_new calling mkdir before it looks whether the name exists
new_refused_mkdir_first(name, mkdir_ok) ==
    /\ DirExists(fs, name) \/ ~mkdir_ok
    /\ call' = Call("new", NULL, name, NoTree, NULL, NoTree, <<>>)
    /\ io' = IF DirExists(fs, name) THEN {Sys("access", name, TRUE)}
             ELSE {Sys("access", name, FALSE), Sys("mkdir", name, FALSE)}
    /\ fs' = Store(fs, Resolve(name),
                   IF DirExists(fs, name) THEN fs[Resolve(name)] ELSE EmptyDir)
    /\ UNCHANGED <<loaded, libs, nalloc>>

new_refused(name, mkdir_ok) ==
    /\ DirExists(fs, name) \/ ~mkdir_ok
    /\ call' = Call("new", NULL, name, NoTree, NULL, NoTree, <<>>)
    /\ io' = IF DirExists(fs, name) THEN {Sys("access", name, TRUE)}
             ELSE {Sys("access", name, FALSE), Sys("mkdir", name, FALSE)}
    /\ UNCHANGED <<loaded, libs, nalloc, fs>>

new_made(name, mkdir_ok, cap) ==
    LET fs1 == Store(fs, Resolve(name), EmptyDir)
        r == lib_init(libs, loaded, nalloc, name, name, fs1, Junk)
        dir == FopenDir(r.libs[r.lib].path)
        tag == <<PACKAGE_STRING \o <<"\n">>>>
    IN  /\ ~DirExists(fs, name) /\ mkdir_ok
        /\ nalloc < cap
        /\ libs' = r.libs
        /\ loaded' = r.loaded
        /\ nalloc' = r.nalloc
        /\ fs' = Store(fs1, dir, Store(fs1[dir], MARKER, tag))
        /\ call' = Call("new", NULL, name, NoTree, r.lib, NoTree, <<>>)
        /\ io' = {Sys("access", name, FALSE), Sys("mkdir", name, TRUE),
                  Sys("realpath", name, TRUE),
                  Sys("fopen_w", PathJoin(r.libs[r.lib].path, MARKER), TRUE)}

lib_new(name, mkdir_ok, cap) ==
    /\ ~aborted
    /\ new_refused(name, mkdir_ok) \/ new_made(name, mkdir_ok, cap)
    /\ UNCHANGED <<work, env, aborted>>

(***************************************************************************)
(* lib_tmp: realpath("") fails, so l->path is never written; junk is what  *)
(* the allocator left in it ("" when the memory happens to be zeroed).     *)
(***************************************************************************)
lib_tmp(junk, cap) ==
    LET r == lib_init(libs, loaded, nalloc, WorkName, EmptyStr, fs, junk)
    IN  /\ ~aborted
        /\ nalloc < cap
        /\ libs' = r.libs
        /\ loaded' = r.loaded
        /\ nalloc' = r.nalloc
        /\ call' = Call("tmp", NULL, EmptyStr, NoTree, r.lib, NoTree, <<>>)
        /\ io' = {Sys("realpath", EmptyStr, FALSE)}
        /\ UNCHANGED <<work, fs, env, aborted>>

(***************************************************************************)
(* lib_free.  FreeWalk is the for loop over `loaded`: L holds the nodes of *)
(* the list on entry, `it` and `head` are positions in L (Len(L) + 1 is    *)
(* the NULL that ends the list) and `prev` is a position or 0 for NULL.    *)
(* The loop's increment assigns `loaded`, not `prev`.                      *)
(***************************************************************************)
RECURSIVE FreeWalk(_, _, _, _, _)
FreeWalk(L, lib, it, prev, head) ==
    IF it > Len(L) THEN SubSeq(L, head, Len(L))
    ELSE IF L[it] = lib
    THEN IF prev # 0
         THEN SubSeq(L, head, it - 1) \o SubSeq(L, it + 1, Len(L))
         ELSE SubSeq(L, it + 1, Len(L))
    ELSE FreeWalk(L, lib, it + 1, prev, it)

(***************************************************************************)
(* lib_destroy                                                             *)
(***************************************************************************)
\* lib_destroy skipping the entries lib_load_all skips ('.' and '_')
lib_destroy_skips_marker(lib) ==
    LET path == libs[lib].path
        left == {n \in DOMAIN fs[Resolve(path)] : n[1] = "." \/ n[1] = "_"}
        gone == DOMAIN fs[Resolve(path)] \ left
        unlinks == {Sys("unlink", PathJoin(path, n), TRUE) : n \in gone}
    IN  /\ ~aborted
        /\ lib \in DOMAIN libs
        /\ IF ~DirExists(fs, path)
           THEN /\ io' = {Sys("opendir", path, FALSE)}
                /\ UNCHANGED fs
           ELSE /\ io' = {Sys("opendir", path, TRUE),
                          Sys("rmdir", path, left = {})} \cup unlinks
                /\ fs' = IF left = {} THEN Drop(fs, Resolve(path))
                         ELSE Store(fs, Resolve(path),
                                    [n \in left |-> fs[Resolve(path)][n]])
        /\ call' = Call("destroy", lib, EmptyStr, NoTree, NULL, NoTree, <<>>)
        /\ UNCHANGED <<loaded, work, libs, nalloc, env, aborted>>

lib_destroy(lib) ==
    LET path == libs[lib].path
        left == {n \in DOMAIN fs[Resolve(path)] : n[1] = "."}
        gone == DOMAIN fs[Resolve(path)] \ left
        unlinks == {Sys("unlink", PathJoin(path, n), TRUE) : n \in gone}
    IN  /\ ~aborted
        /\ lib \in DOMAIN libs
        /\ IF ~DirExists(fs, path)
           THEN /\ io' = {Sys("opendir", path, FALSE)}
                /\ UNCHANGED fs
           ELSE /\ io' = {Sys("opendir", path, TRUE),
                          Sys("rmdir", path, left = {})} \cup unlinks
                /\ fs' = IF left = {} THEN Drop(fs, Resolve(path))
                         ELSE Store(fs, Resolve(path),
                                    [n \in left |-> fs[Resolve(path)][n]])
        /\ call' = Call("destroy", lib, EmptyStr, NoTree, NULL, NoTree, <<>>)
        /\ UNCHANGED <<loaded, work, libs, nalloc, env, aborted>>

(***************************************************************************)
(* lib_set_work, lib_work                                                  *)
(***************************************************************************)
lib_set_work(lib) ==
    /\ ~aborted
    /\ work' = lib
    /\ call' = Call("set_work", lib, EmptyStr, NoTree, NULL, NoTree, <<>>)
    /\ io' = {}
    /\ UNCHANGED <<loaded, libs, nalloc, fs, env, aborted>>

lib_work ==
    /\ ~aborted
    /\ aborted' = (work = NULL)
    /\ call' = Call("work", NULL, EmptyStr, NoTree, work, NoTree, <<>>)
    /\ io' = {}
    /\ UNCHANGED <<loaded, work, libs, nalloc, fs, env>>

(***************************************************************************)
(* lib_put_aux and lib_put.  A cache is the sequence of the n_units        *)
(* entries [top, dirty] of lib->units.                                     *)
(***************************************************************************)
\* lib_put_aux overwriting the entry that already has the unit's identifier
lib_put_aux_replace(units, unit, dirty) ==
    LET old == {n \in 1..Len(units) : tree_ident(units[n].top) = tree_ident(unit)}
    IN  IF old # {}
        THEN [units |-> [n \in 1..Len(units) |->
                            IF n \in old THEN [top |-> unit, dirty |-> dirty]
                            ELSE units[n]],
              abort |-> FALSE]
        ELSE IF Len(units) < MAX_UNITS
        THEN [units |-> Append(units, [top |-> unit, dirty |-> dirty]),
              abort |-> FALSE]
        ELSE [units |-> units, abort |-> TRUE]

\* lib_put_aux asserting n_units <= MAX_UNITS
lib_put_aux_offbyone(units, unit, dirty) ==
    IF Len(units) <= MAX_UNITS
    THEN [units |-> Append(units, [top |-> unit, dirty |-> dirty]), abort |-> FALSE]
    ELSE [units |-> units, abort |-> TRUE]

lib_put_aux(units, unit, dirty) ==
    IF Len(units) < MAX_UNITS
    THEN [units |-> Append(units, [top |-> unit, dirty |-> dirty]), abort |-> FALSE]
    ELSE [units |-> units, abort |-> TRUE]

lib_put(lib, unit, maxput) ==
    LET r == lib_put_aux(libs[lib].units, unit, TRUE)
    IN  /\ ~aborted
        /\ lib \in DOMAIN libs
        /\ Len(libs[lib].units) < maxput
        /\ libs' = [libs EXCEPT ![lib].units = r.units]
        /\ aborted' = r.abort
        /\ call' = Call("put", lib, EmptyStr, unit, NULL, NoTree, <<>>)
        /\ io' = {}
        /\ UNCHANGED <<loaded, work, nalloc, fs, env>>

(***************************************************************************)
(* lib_get_ctx on the struct lib l and the disk f: the tree returned       *)
(* (NoTree for NULL), the cache afterwards, the file-system calls made,    *)
(* and whether fatal() or the assertion of lib_put_aux ended the process.  *)
(***************************************************************************)
\* lib_get_ctx remembering a miss as an entry without a unit
lib_get_ctx_negcache(l, f, ident) ==
    LET hits == {n \in 1..Len(l.units) : tree_ident(l.units[n].top) = ident}
        first == CHOOSE n \in hits : \A m \in hits : n <= m
        search == istr(ident)
        file == PathJoin(l.path, search)
        r == lib_put_aux(l.units, tree_read(f[FopenDir(l.path)][search]), FALSE)
    IN  IF hits # {}
        THEN [unit |-> l.units[first].top, units |-> l.units, io |-> {},
              abort |-> FALSE]
        ELSE IF l.path = EmptyStr
        THEN [unit |-> NoTree, units |-> l.units, io |-> {}, abort |-> FALSE]
        ELSE IF ~DirExists(f, l.path)
        THEN [unit |-> NoTree, units |-> l.units,
              io |-> {Sys("opendir", l.path, FALSE)}, abort |-> TRUE]
        ELSE IF search \in DOMAIN f[Resolve(l.path)]
        THEN [unit |-> IF r.abort THEN NoTree ELSE r.units[Len(r.units)].top,
              units |-> r.units,
              io |-> {Sys("opendir", l.path, TRUE), Sys("fopen_r", file, TRUE)},
              abort |-> r.abort]
        ELSE [unit |-> NoTree,
              units |-> Append(l.units, [top |-> Tree(ident, 0), dirty |-> FALSE]),
              io |-> {Sys("opendir", l.path, TRUE)}, abort |-> FALSE]

\* lib_get_ctx returning the unit it read without keeping it in the cache
lib_get_ctx_uncached(l, f, ident) ==
    LET hits == {n \in 1..Len(l.units) : tree_ident(l.units[n].top) = ident}
        first == CHOOSE n \in hits : \A m \in hits : n <= m
        search == istr(ident)
        file == PathJoin(l.path, search)
    IN  IF hits # {}
        THEN [unit |-> l.units[first].top, units |-> l.units, io |-> {},
              abort |-> FALSE]
        ELSE IF l.path = EmptyStr
        THEN [unit |-> NoTree, units |-> l.units, io |-> {}, abort |-> FALSE]
        ELSE IF ~DirExists(f, l.path)
        THEN [unit |-> NoTree, units |-> l.units,
              io |-> {Sys("opendir", l.path, FALSE)}, abort |-> TRUE]
        ELSE IF search \in DOMAIN f[Resolve(l.path)]
        THEN [unit |-> tree_read(f[FopenDir(l.path)][search]),
              units |-> l.units,
              io |-> {Sys("opendir", l.path, TRUE), Sys("fopen_r", file, TRUE)},
              abort |-> FALSE]
        ELSE [unit |-> NoTree, units |-> l.units,
              io |-> {Sys("opendir", l.path, TRUE)}, abort |-> FALSE]

lib_get_ctx(l, f, ident) ==
    LET hits == {n \in 1..Len(l.units) : tree_ident(l.units[n].top) = ident}
        first == CHOOSE n \in hits : \A m \in hits : n <= m
        search == istr(ident)
        file == PathJoin(l.path, search)
        r == lib_put_aux(l.units, tree_read(f[FopenDir(l.path)][search]), FALSE)
    IN  IF hits # {}
        THEN [unit |-> l.units[first].top, units |-> l.units, io |-> {},
              abort |-> FALSE]
        ELSE IF l.path = EmptyStr
        THEN [unit |-> NoTree, units |-> l.units, io |-> {}, abort |-> FALSE]
        ELSE IF ~DirExists(f, l.path)
        THEN [unit |-> NoTree, units |-> l.units,
              io |-> {Sys("opendir", l.path, FALSE)}, abort |-> TRUE]
        ELSE IF search \in DOMAIN f[Resolve(l.path)]
        THEN [unit |-> IF r.abort THEN NoTree ELSE r.units[Len(r.units)].top,
              units |-> r.units,
              io |-> {Sys("opendir", l.path, TRUE), Sys("fopen_r", file, TRUE)},
              abort |-> r.abort]
        ELSE [unit |-> NoTree, units |-> l.units,
              io |-> {Sys("opendir", l.path, TRUE)}, abort |-> FALSE]

lib_get(lib, ident) ==
    LET r == lib_get_ctx(libs[lib], fs, ident)
    IN  /\ ~aborted
        /\ lib \in DOMAIN libs
        /\ libs' = [libs EXCEPT ![lib].units = r.units]
        /\ aborted' = r.abort
        /\ call' = Call("get", lib, ident, NoTree, NULL, r.unit, <<>>)
        /\ io' = r.io
        /\ UNCHANGED <<loaded, work, nalloc, fs, env>>

(***************************************************************************)
(* lib_load_all; order is the order in which readdir returns the entries.  *)
(***************************************************************************)
RECURSIVE LoadLoop(_, _, _)
LoadLoop(l, f, order) ==
    IF order = <<>>
    THEN [units |-> l.units, io |-> {}, abort |-> FALSE]
    ELSE LET e == Head(order)
             r == lib_get_ctx(l, f, ident_new(e))
             rest == LoadLoop([l EXCEPT !.units = r.units], f, Tail(order))
         IN  IF e[1] = "." \/ e[1] = "_" THEN LoadLoop(l, f, Tail(order))
             ELSE IF r.abort THEN r
             ELSE [units |-> rest.units, io |-> r.io \cup rest.io,
                   abort |-> rest.abort]

\* the orders in which a directory holding the entries S can be read
ReadDirs(S) ==
    {o \in [1..Cardinality(S) -> S] : \A i, j \in DOMAIN o : o[i] = o[j] => i = j}

lib_load_all(lib) ==
    LET l == libs[lib]
    IN  /\ ~aborted
        /\ lib \in DOMAIN libs
        /\ IF l.path = EmptyStr
           THEN /\ io' = {}
                /\ UNCHANGED <<libs, aborted>>
           ELSE IF ~DirExists(fs, l.path)
           THEN /\ io' = {Sys("opendir", l.path, FALSE)}
                /\ aborted' = TRUE
                /\ UNCHANGED libs
           ELSE \E order \in ReadDirs(DOMAIN fs[Resolve(l.path)]) :
                   LET r == LoadLoop(l, fs, order)
                   IN  /\ libs' = [libs EXCEPT ![lib].units = r.units]
                       /\ aborted' = r.abort
                       /\ io' = r.io \cup {Sys("opendir", l.path, TRUE)}
        /\ call' = Call("load_all", lib, EmptyStr, NoTree, NULL, NoTree, <<>>)
        /\ UNCHANGED <<loaded, work, nalloc, fs, env>>

(***************************************************************************)
(* lib_save.  SaveLoop is the for loop from entry n on; rootw is whether   *)
(* the process may create files in the root directory.  fopen returns NULL *)
(* when the directory is missing or not writable, and writing the tree to  *)
(* a NULL stream ends the process.                                         *)
(***************************************************************************)
\* lib_save naming the file in lower case, as lib_find_at names directories
RECURSIVE SaveLoopLower(_, _, _, _, _)
SaveLoopLower(units, n, path, f, rootw) ==
    IF n > Len(units)
    THEN [units |-> units, fs |-> f, io |-> {}, abort |-> FALSE]
    ELSE IF ~units[n].dirty THEN SaveLoopLower(units, n + 1, path, f, rootw)
    ELSE LET name == LowerCase(istr(tree_ident(units[n].top)))
             dir == FopenDir(path)
             file == PathJoin(path, name)
             opened == dir \in DOMAIN f /\ (path # EmptyStr \/ rootw)
             f1 == Store(f, dir, Store(f[dir], name, tree_write(units[n].top)))
             rest == SaveLoopLower([units EXCEPT ![n].dirty = FALSE], n + 1,
                                   path, f1, rootw)
         IN  IF ~opened
             THEN [units |-> units, fs |-> f,
                   io |-> {Sys("fopen_w", file, FALSE)}, abort |-> TRUE]
             ELSE [units |-> rest.units, fs |-> rest.fs,
                   io |-> {Sys("fopen_w", file, TRUE)} \cup rest.io,
                   abort |-> rest.abort]

\* lib_save without the assignment "lib->units[n].dirty = false"
RECURSIVE SaveLoopKeepsDirty(_, _, _, _, _)
SaveLoopKeepsDirty(units, n, path, f, rootw) ==
    IF n > Len(units)
    THEN [units |-> units, fs |-> f, io |-> {}, abort |-> FALSE]
    ELSE IF ~units[n].dirty THEN SaveLoopKeepsDirty(units, n + 1, path, f, rootw)
    ELSE LET name == istr(tree_ident(units[n].top))
             dir == FopenDir(path)
             file == PathJoin(path, name)
             opened == dir \in DOMAIN f /\ (path # EmptyStr \/ rootw)
             f1 == Store(f, dir, Store(f[dir], name, tree_write(units[n].top)))
             rest == SaveLoopKeepsDirty(units, n + 1, path, f1, rootw)
         IN  IF ~opened
             THEN [units |-> units, fs |-> f,
                   io |-> {Sys("fopen_w", file, FALSE)}, abort |-> TRUE]
             ELSE [units |-> rest.units, fs |-> rest.fs,
                   io |-> {Sys("fopen_w", file, TRUE)} \cup rest.io,
                   abort |-> rest.abort]

RECURSIVE SaveLoop(_, _, _, _, _)
SaveLoop(units, n, path, f, rootw) ==
    IF n > Len(units)
    THEN [units |-> units, fs |-> f, io |-> {}, abort |-> FALSE]
    ELSE IF ~units[n].dirty THEN SaveLoop(units, n + 1, path, f, rootw)
    ELSE LET name == istr(tree_ident(units[n].top))
             dir == FopenDir(path)
             file == PathJoin(path, name)
             opened == dir \in DOMAIN f /\ (path # EmptyStr \/ rootw)
             f1 == Store(f, dir, Store(f[dir], name, tree_write(units[n].top)))
             rest == SaveLoop([units EXCEPT ![n].dirty = FALSE], n + 1, path,
                              f1, rootw)
         IN  IF ~opened
             THEN [units |-> units, fs |-> f,
                   io |-> {Sys("fopen_w", file, FALSE)}, abort |-> TRUE]
             ELSE [units |-> rest.units, fs |-> rest.fs,
                   io |-> {Sys("fopen_w", file, TRUE)} \cup rest.io,
                   abort |-> rest.abort]

lib_save(lib, rootw) ==
    LET r == SaveLoop(libs[lib].units, 1, libs[lib].path, fs, rootw)
    IN  /\ ~aborted
        /\ lib \in DOMAIN libs
        /\ libs' = [libs EXCEPT ![lib].units = r.units]
        /\ fs' = r.fs
        /\ aborted' = r.abort
        /\ call' = Call("save", lib, EmptyStr, NoTree, NULL, NoTree, <<>>)
        /\ io' = r.io
        /\ UNCHANGED <<loaded, work, nalloc, env>>

(***************************************************************************)
(* lib_free: unlink the handle from `loaded` (FreeWalk) and free it.       *)
(***************************************************************************)
\* lib_free writing the dirty units out before it discards them
lib_free_flush(lib) ==
    LET r == SaveLoop(libs[lib].units, 1, libs[lib].path, fs, TRUE)
    IN  /\ ~aborted
        /\ lib \in DOMAIN libs
        /\ loaded' = FreeWalk(loaded, lib, 1, 0, 1)
        /\ libs' = Drop(libs, lib)
        /\ fs' = r.fs
        /\ call' = Call("free", lib, EmptyStr, NoTree, NULL, NoTree, <<>>)
        /\ io' = r.io
        /\ UNCHANGED <<work, nalloc, env, aborted>>

lib_free(lib) ==
    /\ ~aborted
    /\ lib \in DOMAIN libs
    /\ loaded' = FreeWalk(loaded, lib, 1, 0, 1)
    /\ libs' = Drop(libs, lib)
    /\ call' = Call("free", lib, EmptyStr, NoTree, NULL, NoTree, <<>>)
    /\ io' = {}
    /\ UNCHANGED <<work, nalloc, fs, env, aborted>>

(***************************************************************************)
(* The registry and its libraries on disk: names of both letter cases, a   *)
(* search path, and a library that exists before the process starts.       *)
(***************************************************************************)
LibNames == {<<"a">>, <<"A">>, <<"b">>}
JunkPaths == {EmptyStr, Junk}
FsEmpty == Store(EmptyDir, ROOT, EmptyDir)
Init ==
    /\ loaded = <<>>
    /\ work = NULL
    /\ libs = EmptyDir
    /\ nalloc = 0
    /\ fs = FsEmpty
    /\ env = NullStr
    /\ call = Call("start", NULL, EmptyStr, NoTree, NULL, NoTree, <<>>)
    /\ io = {}
    /\ aborted = FALSE

Next ==
    \/ \E n \in LibNames, ok \in BOOLEAN : lib_new(n, ok, MaxHandles)
    \/ \E n \in LibNames, s \in BOOLEAN : lib_find(n, FALSE, s, MaxHandles)
    \/ \E j \in JunkPaths : lib_tmp(j, MaxHandles)
    \/ \E h \in DOMAIN libs : lib_free(h)
    \/ \E h \in DOMAIN libs \cup {NULL} : lib_set_work(h)
    \/ lib_work

Spec == Init /\ [][Next]_vars

(***************************************************************************)
(* One library name, its units, its cache and its directory.               *)
(***************************************************************************)
CacheNames == {<<"a">>}
Idents == {<<"X">>, <<"Y">>}
Units == {Tree(<<"X">>, 1), Tree(<<"X">>, 2), Tree(<<"Y">>, 1)}

NextCache ==
    \/ \E n \in CacheNames, ok \in BOOLEAN : lib_new(n, ok, MaxCacheHandles)
    \/ \E n \in CacheNames : lib_find(n, FALSE, FALSE, MaxCacheHandles)
    \/ \E h \in DOMAIN libs : lib_free(h)
    \/ \E h \in DOMAIN libs, u \in Units : lib_put(h, u, MaxPut)
    \/ \E h \in DOMAIN libs, id \in Idents : lib_get(h, id)
    \/ \E h \in DOMAIN libs : lib_load_all(h)
    \/ \E h \in DOMAIN libs, w \in BOOLEAN : lib_save(h, w)

SpecCache == Init /\ [][NextCache]_vars

(***************************************************************************)
(* Libraries made by lib_tmp, their caches, and the disk around them.      *)
(***************************************************************************)
NextTmp ==
    \/ \E j \in JunkPaths : lib_tmp(j, MaxTmpHandles)
    \/ \E h \in DOMAIN libs : lib_free(h)
    \/ \E h \in DOMAIN libs : lib_destroy(h)
    \/ \E h \in DOMAIN libs, u \in Units : lib_put(h, u, MaxPut)
    \/ \E h \in DOMAIN libs, id \in Idents : lib_get(h, id)
    \/ \E h \in DOMAIN libs : lib_load_all(h)
    \/ \E h \in DOMAIN libs, w \in BOOLEAN : lib_save(h, w)

SpecTmp == Init /\ [][NextTmp]_vars

(***************************************************************************)
(* A library directory through its whole life: made, filled, destroyed.    *)
(***************************************************************************)
NextDestroy ==
    \/ \E n \in CacheNames, ok \in BOOLEAN : lib_new(n, ok, MaxDestroyHandles)
    \/ \E h \in DOMAIN libs : lib_free(h)
    \/ \E h \in DOMAIN libs, u \in Units : lib_put(h, u, MaxDestroyPut)
    \/ \E h \in DOMAIN libs, w \in BOOLEAN : lib_save(h, w)
    \/ \E h \in DOMAIN libs : lib_destroy(h)

SpecDestroy == Init /\ [][NextDestroy]_vars

(***************************************************************************)
(* A cache filled to MAX_UNITS.  The library directory exists before the   *)
(* process starts and holds one unit file, left by an earlier run.         *)
(***************************************************************************)
CapName == <<"a">>
CapUnit == Tree(<<"X">>, 1)
CapOnDisk == Tree(<<"Y">>, 1)
CapIdents == {<<"X">>, <<"Y">>, <<"Z">>}
FsCap ==
    Store(FsEmpty, Resolve(CapName),
          Store(Store(EmptyDir, MARKER, <<PACKAGE_STRING \o <<"\n">>>>),
                istr(tree_ident(CapOnDisk)), tree_write(CapOnDisk)))

InitCap ==
    /\ loaded = <<>>
    /\ work = NULL
    /\ libs = EmptyDir
    /\ nalloc = 0
    /\ fs = FsCap
    /\ env = NullStr
    /\ call = Call("start", NULL, EmptyStr, NoTree, NULL, NoTree, <<>>)
    /\ io = {}
    /\ aborted = FALSE

NextCap ==
    \/ lib_find(CapName, FALSE, FALSE, MaxCapHandles)
    \/ \E h \in DOMAIN libs : lib_free(h)
    \/ \E h \in DOMAIN libs : lib_put(h, CapUnit, MAX_UNITS + 1)
    \/ \E h \in DOMAIN libs, id \in CapIdents : lib_get(h, id)
    \/ \E h \in DOMAIN libs : lib_load_all(h)
    \/ \E h \in DOMAIN libs : lib_save(h, TRUE)

SpecCap == InitCap /\ [][NextCap]_vars

(***************************************************************************)
(* Library resolution over a disk that holds libraries before the process  *)
(* starts: under the current directory, under directories NVC_LIBPATH can  *)
(* name (one with a capital letter) and under DATADIR.  UnmarkedDir is a   *)
(* directory without the marker file.                                      *)
(***************************************************************************)
SearchNames == {<<"a">>, <<"A">>}
EnvValues ==
    {NullStr, EmptyStr, <<":">>, Dot, DATADIR, <<"/", "p">>, <<"/", "P">>,
     <<"/", "p", ":", "/", "p">>, <<"/", "q", ":", "/", "p">>}
UnmarkedDir == <<"/", "q", "/", "a">>
LibDirs ==
    {<<"/", "c", "/", "a">>, <<"/", "p", "/", "a">>, <<"/", "P", "/", "a">>,
     <<"/", "d", "/", "a">>, UnmarkedDir}
FsLibs(S) ==
    [d \in {ROOT} \cup S |->
        IF d = ROOT \/ d = UnmarkedDir THEN EmptyDir
        ELSE Store(EmptyDir, MARKER, <<PACKAGE_STRING \o <<"\n">>>>)]

InitSearch ==
    /\ loaded = <<>>
    /\ work = NULL
    /\ libs = EmptyDir
    /\ nalloc = 0
    /\ fs \in {FsLibs(S) : S \in SUBSET LibDirs}
    /\ env \in EnvValues
    /\ call = Call("start", NULL, EmptyStr, NoTree, NULL, NoTree, <<>>)
    /\ io = {}
    /\ aborted = FALSE

NextSearch ==
    \/ \E n \in SearchNames, v \in BOOLEAN, s \in BOOLEAN :
           lib_find(n, v, s, MaxSearchHandles)
    \/ \E h \in DOMAIN libs : lib_free(h)

SpecSearch == InitSearch /\ [][NextSearch]_vars

(***************************************************************************)
(* The claims.                                                             *)
(***************************************************************************)
\* the libraries that are open: allocated by lib_init and not yet freed
Open == DOMAIN libs

\* C1: the registry never holds two handles with the same canonical name,
\* whatever lib_new, lib_find, lib_tmp and lib_free calls were made.
C1_RegistryUnique ==
    \A i, j \in 1..Len(loaded) :
        i # j => libs[loaded[i]].name # libs[loaded[j]].name

\* C2: lib_free(h) removes h and nothing else from the registry: the list
\* afterwards is the list before without h (the same list when h was not
\* in it).
C2_FreeRemovesExactly ==
    [][call'.op = "free" =>
         LET keep(x) == x # call'.lib
         IN  loaded' = SelectSeq(loaded, keep)]_vars

\* C3: while a library whose canonical name is upcase(n) is open, lib_find
\* of any spelling of n returns an open handle of that name, touches no
\* file and leaves the registry as it was.
C3_FindReturnsOpen ==
    [][call'.op = "find" =>
         LET same == {h \in Open : libs[h].name = upcase_name(call'.name)}
         IN  same # {} =>
                 /\ call'.rlib \in same
                 /\ io' = {}
                 /\ loaded' = loaded]_vars

\* a struct lib as lib_init makes it for the directory of l, on the disk f
Reopen(l, f) == lib_init(EmptyDir, <<>>, 0, l.name, l.path, f, Junk).libs[1]

\* C4: in a directory-backed library every clean cache entry has a file on
\* disk, named by its unit's identifier, that holds that entry's unit; also
\* when two entries share an identifier.
C4_CleanMeansOnDisk ==
    \A h \in Open :
        libs[h].path # EmptyStr =>
            \A n \in 1..Len(libs[h].units) :
                LET e == libs[h].units[n]
                    name == istr(tree_ident(e.top))
                IN  ~e.dirty =>
                        /\ FileExists(fs, libs[h].path, name)
                        /\ tree_read(fs[Resolve(libs[h].path)][name]) = e.top

\* C5: lib_put(h, u) followed by lib_save(h) leaves the disk such that
\* lib_get of u's identifier on a fresh handle for the same directory
\* returns a unit equal to u.
C5_RoundTrip ==
    [][(/\ call.op = "put"
        /\ call'.op = "save"
        /\ call'.lib = call.lib
        /\ ~aborted')
       => lib_get_ctx(Reopen(libs[call.lib], fs'), fs',
                      tree_ident(call.tree)).unit = call.tree]_vars

\* C5 witness: lib_save has returned after writing files for a cache that
\* holds two different units with one identifier.
C5_Witness ==
    /\ call.op = "save"
    /\ ~aborted
    /\ call.lib \in Open
    /\ \E s \in io : s[1] = "fopen_w" /\ s[3]
    /\ \E m, n \in 1..Len(libs[call.lib].units) :
          /\ m < n
          /\ libs[call.lib].units[m].top # libs[call.lib].units[n].top
          /\ tree_ident(libs[call.lib].units[m].top)
               = tree_ident(libs[call.lib].units[n].top)

\* no entry of the cache of h is dirty
AllClean(h) == \A n \in 1..Len(libs[h].units) : ~libs[h].units[n].dirty

\* C6: when lib_save(h) has returned, no entry of h is dirty; only lib_put
\* on h makes an entry of h dirty; and lib_save(h) on a cache with no dirty
\* entry opens no file and changes neither the disk nor any library.  So a
\* second lib_save(h), with no lib_put(h) in between, is a no-op.
C6_SaveIdempotent ==
    /\ [](call.op = "save" /\ ~aborted => AllClean(call.lib))
    /\ [][\A h \in Open \cap Open' :
             (AllClean(h) /\ ~(call'.op = "put" /\ call'.lib = h))
                 => AllClean(h)']_vars
    /\ [][(call'.op = "save" /\ AllClean(call'.lib))
          => /\ io' = {}
             /\ fs' = fs
             /\ libs' = libs
             /\ loaded' = loaded
             /\ ~aborted']_vars

\* C6 witness: lib_save has returned without a file-system call on the only
\* handle ever opened, whose cache holds two units that are on disk: they
\* were written by an earlier lib_save of this handle.
C6_Witness ==
    /\ call.op = "save"
    /\ ~aborted
    /\ io = {}
    /\ nalloc = 1
    /\ call.lib \in Open
    /\ Len(libs[call.lib].units) >= 2
    /\ \A n \in 1..Len(libs[call.lib].units) :
          FileExists(fs, libs[call.lib].path,
                     istr(tree_ident(libs[call.lib].units[n].top)))

\* C7: lib_put appends one dirty entry and changes no other entry; lib_get
\* returns the top of the first entry, in insertion order, whose identifier
\* is the one asked for, and NULL only when no entry has it.
C7_FirstMatch ==
    /\ [](call.op = "get" /\ ~aborted =>
            LET units == libs[call.lib].units
            IN  IF call.rtree = NoTree
                THEN \A n \in 1..Len(units) :
                         tree_ident(units[n].top) # call.name
                ELSE \E n \in 1..Len(units) :
                         /\ units[n].top = call.rtree
                         /\ tree_ident(units[n].top) = call.name
                         /\ \A m \in 1..(n - 1) :
                                tree_ident(units[m].top) # call.name)
    /\ [][call'.op = "put" /\ ~aborted' =>
            libs'[call'.lib].units =
                Append(libs[call'.lib].units,
                       [top |-> call'.tree, dirty |-> TRUE])]_vars

\* C7 witness: lib_get has returned the first of two different units that
\* were put with the same identifier, and both are still in the cache.
C7_Witness ==
    /\ call.op = "get"
    /\ call.lib \in Open
    /\ Len(libs[call.lib].units) >= 2
    /\ libs[call.lib].units[1].top = call.rtree
    /\ libs[call.lib].units[2].top # call.rtree
    /\ tree_ident(libs[call.lib].units[2].top) = call.name
    /\ libs[call.lib].units[1].dirty
    /\ libs[call.lib].units[2].dirty

\* C8: lib_put, lib_get, lib_save and lib_destroy on a library made by
\* lib_tmp try to open no file and create or remove nothing on disk; a
\* failed opendir is not counted.
C8_EphemeralNoIO ==
    call.op \in {"put", "get", "save", "destroy"} =>
        \A s \in io : s[1] = "opendir" /\ ~s[3]

\* C9: lib_free writes nothing: the disk is as before, and a unit that was
\* dirty and had no file when its library was freed is not found by lib_get
\* on a fresh handle for the same directory.
C9_FreeDoesNotFlush ==
    [][call'.op = "free" =>
         LET l == libs[call'.lib]
         IN  /\ fs' = fs
             /\ io' = {}
             /\ \A n \in 1..Len(l.units) :
                    LET id == tree_ident(l.units[n].top)
                    IN  (/\ l.units[n].dirty
                         /\ DirExists(fs, l.path)
                         /\ ~FileExists(fs, l.path, istr(id)))
                        => lib_get_ctx(Reopen(l, fs'), fs', id).unit = NoTree]_vars

\* C9 witness: a directory-backed library holds a unit that was put and not
\* saved, with no file of its name on disk; lib_free can be called on it.
C9_Witness ==
    /\ call.op = "put"
    /\ ~aborted
    /\ call.lib \in Open
    /\ DirExists(fs, libs[call.lib].path)
    /\ ~FileExists(fs, libs[call.lib].path, istr(tree_ident(call.tree)))
    /\ \E n \in 1..Len(libs[call.lib].units) :
          /\ libs[call.lib].units[n].top = call.tree
          /\ libs[call.lib].units[n].dirty

\* C10: a lib_new that finds the name taken, or whose mkdir fails, returns
\* NULL and leaves the registry, the heap, the work pointer and the disk
\* as they were.
C10_FailedCreateAtomic ==
    [][(/\ call'.op = "new"
        /\ \/ DirExists(fs, call'.name)
           \/ Sys("mkdir", call'.name, FALSE) \in io')
       => /\ call'.rlib = NULL
          /\ loaded' = loaded
          /\ libs' = libs
          /\ work' = work
          /\ fs' = fs]_vars

\* C10 witness: mkdir has failed for a name that was free, with a library
\* registered and the work pointer set.
C10_Witness ==
    /\ call.op = "new"
    /\ Sys("mkdir", call.name, FALSE) \in io
    /\ call.rlib = NULL
    /\ loaded # <<>>
    /\ work # NULL

(***************************************************************************)
(* Resolution as the specification describes it.                           *)
(***************************************************************************)
\* some open library has the canonical name of `name`
NameOpen(name) == \E h \in DOMAIN libs : libs[h].name = upcase_name(name)

\* the candidate base directories in the order the specification gives
SpecBases(search, e) ==
    IF ~search THEN <<Dot>>
    ELSE <<Dot>> \o (IF e = NullStr THEN <<>> ELSE strtok(e)) \o <<DATADIR>>

\* the directory of library `name` under `base`: the base as given
SpecDir(name, base) == PathJoin(base, LowerCase(name))

\* `base` holds the library: directory and marker file both exist
ValidAt(name, base, f) ==
    /\ DirExists(f, SpecDir(name, base))
    /\ FileExists(f, SpecDir(name, base), MARKER)

\* the positions of `bases` under which the library is valid
ValidIn(name, bases, f) == {i \in 1..Len(bases) : ValidAt(name, bases[i], f)}

Least(S) == CHOOSE i \in S : \A j \in S : i <= j

\* the step registered exactly one new handle, rlib, backed by `dir`
Registered(rlib, dir) ==
    /\ rlib # NULL
    /\ rlib \notin DOMAIN libs
    /\ DOMAIN libs' = DOMAIN libs \cup {rlib}
    /\ loaded' = <<rlib>> \o loaded
    /\ libs'[rlib].path = Resolve(dir)

\* C11: when no handle of the name is open, lib_find returns the library
\* under the first valid base in the order current directory, NVC_LIBPATH
\* entries as listed, DATADIR, and registers exactly one handle for it (so
\* a library valid under the current directory wins over one on the search
\* path); it returns NULL when no base is valid.
C11_SearchOrder ==
    [][(call'.op = "find" /\ ~NameOpen(call'.name)) =>
         LET bases == SpecBases(call'.search, env)
             valid == ValidIn(call'.name, bases, fs)
         IN  IF valid = {}
             THEN call'.rlib = NULL /\ libs' = libs /\ loaded' = loaded
             ELSE Registered(call'.rlib,
                             SpecDir(call'.name, bases[Least(valid)]))]_vars

\* C12: with extended search DATADIR is the last base probed whatever
\* NVC_LIBPATH holds: a lib_find that no earlier base satisfies probes
\* DATADIR/lowercase(name), and a library valid only there is found.
C12_DataDirLast ==
    [][(/\ call'.op = "find" /\ call'.search /\ ~NameOpen(call'.name)
        /\ \A i \in 1..(Len(SpecBases(TRUE, env)) - 1) :
              ~ValidAt(call'.name, SpecBases(TRUE, env)[i], fs)) =>
         /\ \E ok \in BOOLEAN :
               Sys("access", SpecDir(call'.name, DATADIR), ok) \in io'
         /\ ValidAt(call'.name, DATADIR, fs) =>
               Registered(call'.rlib, SpecDir(call'.name, DATADIR))]_vars

\* C13: lib_find_at probes base/lowercase(name) with the base as given: of
\* the bases lib_find walks, the first whose directory base/lowercase(name)
\* exists and holds the marker file is the one returned, a base lacking
\* either is passed over, and nothing else is probed.
C13_ProbeKeepsBase ==
    [][(call'.op = "find"
        /\ FindLoaded(loaded, libs, upcase_name(call'.name)) = NULL) =>
         LET bases == Probed(SearchPaths(call'.search, env).base)
             valid == ValidIn(call'.name, bases, fs)
             dirs == {SpecDir(call'.name, bases[i]) : i \in 1..Len(bases)}
         IN  /\ IF valid = {} THEN call'.rlib = NULL
                ELSE Registered(call'.rlib,
                                SpecDir(call'.name, bases[Least(valid)]))
             /\ \A c \in io' :
                   c[1] = "access" =>
                      c[2] \in dirs \cup {PathJoin(d, MARKER) : d \in dirs}]_vars

\* C16: the sequence of base directories lib_find probes, and the one it
\* lists when the library is not found, names no directory twice.
NoRepeat(paths) ==
    \A i, j \in 1..Len(paths) :
        i # j => Resolve(paths[i]) # Resolve(paths[j])

C16_BasesDeduplicated ==
    [][(call'.op = "find"
        /\ FindLoaded(loaded, libs, upcase_name(call'.name)) = NULL) =>
         /\ NoRepeat(Probed(SearchPaths(call'.search, env).base))
         /\ NoRepeat(call'.diag)]_vars

(***************************************************************************)
(* Reading units back from the directory.                                  *)
(***************************************************************************)
\* the entries of the cache of l that hold identifier id
Cached(l, id) == {n \in 1..Len(l.units) : tree_ident(l.units[n].top) = id}

\* l is backed by a directory that can be opened
DirBacked(l, f) == l.path \notin JunkPaths /\ DirExists(f, l.path)

\* the unit stored in the file `name` of the directory of l
OnDisk(l, f, name) == tree_read(f[Resolve(l.path)][name])

Loadable(dir) == {e \in DOMAIN dir : e[1] # "." /\ e[1] # "_"}

\* C18: lib_load_all leaves a cache entry for every directory entry whose
\* name starts with neither '.' nor '_', keeps the entries already cached
\* (dirty ones too) as they were, adds one clean entry per identifier that
\* was not cached and none for one that was, and changes nothing when run
\* again; on a library made by lib_tmp it changes nothing at all.
C18_LoadAll ==
    [][call'.op = "load_all" =>
         LET l == libs[call'.lib]
             l2 == libs'[call'.lib]
             old == Len(l.units)
         IN  IF l.name = upcase_name(WorkName) /\ ~DirBacked(l, fs)
             THEN libs' = libs /\ fs' = fs /\ io' = {} /\ ~aborted'
             ELSE DirBacked(l, fs) =>
                  LET dir == fs[Resolve(l.path)]
                  IN  /\ ~aborted' /\ fs' = fs
                      /\ \A e \in Loadable(dir) : Cached(l2, ident_new(e)) # {}
                      /\ SubSeq(l2.units, 1, old) = l.units
                      /\ \A n \in (old + 1)..Len(l2.units) :
                            /\ ~l2.units[n].dirty
                            /\ Cached(l, tree_ident(l2.units[n].top)) = {}
                            /\ Cached(l2, tree_ident(l2.units[n].top)) = {n}
                            /\ istr(tree_ident(l2.units[n].top)) \in Loadable(dir)
                            /\ l2.units[n].top =
                                  OnDisk(l, fs, istr(tree_ident(l2.units[n].top)))
                      /\ \A order \in ReadDirs(DOMAIN dir) :
                            LoadLoop(l2, fs', order) =
                               [units |-> l2.units, io |-> {}, abort |-> FALSE]]_vars

Inserts ==
    LET l == libs[call'.lib]
    IN  \/ call'.op = "put"
        \/ /\ call'.op = "get"
           /\ Cached(l, call'.name) = {}
           /\ DirBacked(l, fs)
           /\ FileExists(fs, l.path, istr(call'.name))
        \/ /\ call'.op = "load_all"
           /\ DirBacked(l, fs)
           /\ \E e \in Loadable(fs[Resolve(l.path)]) : Cached(l, ident_new(e)) = {}

\* C19: a cache never holds more than MAX_UNITS entries, and a call that
\* has to insert into a cache of MAX_UNITS entries (lib_put, a lib_get that
\* must load from disk, lib_load_all) ends the process: the cache stays as
\* it was and lib_get returns no unit.
C19_Capacity ==
    /\ [](\A h \in DOMAIN libs : Len(libs[h].units) <= MAX_UNITS)
    /\ [][(Inserts /\ Len(libs[call'.lib].units) = MAX_UNITS) =>
            /\ aborted'
            /\ libs' = libs
            /\ call'.rtree = NoTree]_vars

\* lib_get of the unit on disk ended the process on a full cache
C19_Witness ==
    /\ aborted
    /\ call.op = "get"
    /\ Len(libs[call.lib].units) = MAX_UNITS
    /\ Cached(libs[call.lib], call.name) = {}
    /\ Sys("fopen_r", PathJoin(libs[call.lib].path, istr(call.name)), TRUE) \in io

\* lib_new(n) has made the library directory of n in the current directory
Made(n, f) == DirExists(f, n) /\ FileExists(f, n, MARKER)

\* the names that differ from `name` in letter case only
CaseVariants(name) == {n \in LibNames : upcase_name(n) = upcase_name(name)}

\* C20: once lib_new(n) has made a library in the current directory, a
\* lib_find of n or of a case variant of n that starts from an empty
\* registry (every handle freed) returns a handle backed by a directory
\* lib_new made for that name, whatever the letter case of n.
C20_CreateThenResolve ==
    [][(/\ call'.op = "find"
        /\ loaded = <<>> /\ DOMAIN libs = {}
        /\ \E n \in CaseVariants(call'.name) : Made(n, fs)) =>
         /\ call'.rlib # NULL
         /\ \E n \in CaseVariants(call'.name) :
               Made(n, fs) /\ libs'[call'.rlib].path = Resolve(n)]_vars

====
